---- MODULE Spec2Model ----
(***************************************************************************)
(* Model of snake.py: the Snake, Food and Game objects, the key handlers   *)
(* of Game.handle_events and the tick Game.update.                         *)
(*                                                                         *)
(* The playfield of the program is 40 x 30 cells; the model plays on a     *)
(* 4 x 2 playfield, the smallest on which the start position fits, with    *)
(* the same walls, start position rule and food rule.                      *)
(* Game.fps is a Python number: the int FPS_START, then a float after each  *)
(* += FPS_STEP.  The model computes it as Python does, in IEEE 754 double   *)
(* precision with round-to-nearest-even (TLC's integers are 32 bits wide,   *)
(* so a 53-bit mantissa is kept in two limbs).                              *)
(*                                                                         *)
(* One action is one key event of handle_events or one call of update; a   *)
(* frame of Game.run is any number of key events followed by one update.   *)
(* The QUIT event and the ESC key end the process and are left out, as is  *)
(* drawing, which changes no state.  highscore.json is the variable        *)
(* stored; a missing or unreadable file reads as 0, as load_high_score     *)
(* returns it.                                                             *)
(*                                                                         *)
(* Spec is the whole program: it stops a game before its score would pass  *)
(* MaxScore, takes no direction key that would make the pending queue      *)
(* longer than MaxQueue, and starts with a stored high score of at most    *)
(* MaxHigh.  LongSpec is one game played to its end without pause or       *)
(* restart, with at most MaxTurns pending directions and no limit on the   *)
(* score but the playfield; FairSpec is one such game with the pause key   *)
(* and with the ticks of Game.run kept firing.                             *)
(***************************************************************************)
EXTENDS Integers, Sequences, FiniteSets

\* ---------------------------------------------------------------- bounds
MaxQueue == 2
MaxScore == 2
MaxHigh == 1
MaxTurns == 1

\* ------------------------------------------------------------- settings
GRID_W == 4
GRID_H == 2
FPS_START == 5

\* ------------------------------------------------------- Python floats
\* A non-negative float is [hi, lo, ex], standing for (hi * 2^27 + lo) * 2^ex
\* with a 53-bit mantissa: 2^25 <= hi < 2^26 and 0 <= lo < 2^27; zero is
\* hi = lo = 0
Limb == 2^27

FZero == [hi |-> 0, lo |-> 0, ex |-> 0]

\* the float literal 0.2, which is 0x1.999999999999ap-3 = 7205759403792794 * 2^-55
FPS_STEP == [hi |-> 53687091, lo |-> 26843546, ex |-> -55]

RECURSIVE NormUp(_)
NormUp(f) ==
    IF f.hi >= 2^25 THEN f
    ELSE NormUp([hi |-> 2 * f.hi + f.lo \div 2^26, lo |-> (2 * f.lo) % Limb,
                 ex |-> f.ex - 1])

\* float(k) for an int k >= 0 below 2^26 (exact)
FromInt(k) == IF k = 0 THEN FZero ELSE NormUp([hi |-> k, lo |-> 0, ex |-> -27])

\* Rounding to 53 bits: the mantissa (hi, lo) divided by 2^k and rounded to the
\* nearest integer, ties to even; r < 2^s is what an alignment by s bits has
\* already dropped below the mantissa
RoundShift(hi, lo, ex, k, r, s) ==
    LET qlo == (hi % 2^k) * 2^(27 - k) + lo \div 2^k
        qhi == hi \div 2^k
        rem == (lo % 2^k) * 2^s + r
        half == 2^(k + s - 1)
        up == k + s > 0 /\ (rem > half \/ (rem = half /\ qlo % 2 = 1))
        slo == IF up THEN qlo + 1 ELSE qlo
        rhi == qhi + slo \div Limb
        rlo == slo % Limb
    IN  IF rhi >= 2^26
        THEN [hi |-> rhi \div 2, lo |-> (rhi % 2) * 2^26 + rlo \div 2, ex |-> ex + k + 1]
        ELSE [hi |-> rhi, lo |-> rlo, ex |-> ex + k]

\* a + b on floats with a >= b >= 0: the exact sum, rounded once
FAdd(a, b) ==
    IF b.hi = 0 /\ b.lo = 0 THEN a
    ELSE LET s == a.ex - b.ex
             blo == (b.hi % 2^s) * 2^(27 - s) + b.lo \div 2^s
             r == b.lo % 2^s
             lo == a.lo + blo
             hi == a.hi + b.hi \div 2^s + lo \div Limb
         IN  RoundShift(hi, lo % Limb, a.ex, IF hi >= 2^26 THEN 1 ELSE 0, r, s)

RECURSIVE Excess(_)
Excess(h) == IF h < 2^26 THEN 0 ELSE 1 + Excess(h \div 2)

\* a * k for a float a >= 0 and an int 0 <= k < 40: the exact product, rounded once
FMulInt(a, k) ==
    IF k = 0 \/ (a.hi = 0 /\ a.lo = 0) THEN FZero
    ELSE LET lo == a.lo * k
             hi == a.hi * k + lo \div Limb
         IN  RoundShift(hi, lo % Limb, a.ex, Excess(hi), 0, 0)

\* the number FPS_START, as Game.fps holds it
FpsStart == FromInt(FPS_START)

\* int(a) for a float a >= 0 below 2^26: truncation
FInt(a) ==
    IF a.hi = 0 THEN 0
    ELSE IF a.ex + 27 >= 0 THEN a.hi * 2^(a.ex + 27)
    ELSE a.hi \div 2^(-(a.ex + 27))

\* a <= b on floats >= 0
FLeq(a, b) ==
    \/ a.hi = 0 /\ a.lo = 0
    \/ /\ b.hi # 0
       /\ \/ a.ex < b.ex
          \/ a.ex = b.ex /\ (a.hi < b.hi \/ (a.hi = b.hi /\ a.lo <= b.lo))

VARIABLES
    body,       \* Snake.body: cells, head first
    dir,        \* Snake.dir: the active direction
    dir_queue,  \* Snake.dir_queue: pending directions, oldest first
    grow,       \* Snake.grow: pending growth credit
    food,       \* Food.pos: a cell, or None
    score,      \* Game.score
    high,       \* Game.high: the high score loaded at the last reset
    fps,        \* Game.fps
    paused,     \* Game.paused
    game_over,  \* Game.game_over
    stored,     \* the "high" value held by highscore.json
    last        \* the last handler that ran, the state it started from, and what it did

vars == <<body, dir, dir_queue, grow, food, score, high, fps, paused, game_over, stored, last>>

\* ------------------------------------------------------------ geometry
None == <<>>
Right == <<1, 0>>
Left == <<-1, 0>>
Up == <<0, -1>>
Down == <<0, 1>>
Directions == {Up, Down, Left, Right}

AllCells == {<<x, y>> : x \in 0 .. GRID_W - 1, y \in 0 .. GRID_H - 1}

Cells(b) == {b[i] : i \in 1 .. Len(b)}

\* ---------------------------------------------------------------- Snake
StartCell == <<GRID_W \div 2, GRID_H \div 2>>

SnakeResetWrong == [body |-> <<StartCell, <<StartCell[1] - 1, StartCell[2]>>,
                              <<StartCell[1] - 2, StartCell[2]>>>>,
                    dir |-> Right,
                    dir_queue |-> dir_queue,
                    grow |-> 0]

\* Snake.reset
SnakeReset == [body |-> <<StartCell, <<StartCell[1] - 1, StartCell[2]>>,
                         <<StartCell[1] - 2, StartCell[2]>>>>,
               dir |-> Right,
               dir_queue |-> <<>>,
               grow |-> 0]

SetDirWrong(b, cur, q, d) ==
    LET ref == IF q # <<>> THEN q[Len(q)] ELSE cur
    IN  IF b # <<>> /\ (d[1] = -ref[1] /\ d[2] = -ref[2]) THEN q
        ELSE IF q = <<>> \/ q[Len(q)] # d THEN Append(q, d)
        ELSE q

SetDirRepeats(b, cur, q, d) ==
    IF b # <<>> /\ (d[1] = -cur[1] /\ d[2] = -cur[2]) THEN q
    ELSE Append(q, d)

\* Snake.set_dir: the pending queue after set_dir(d) on a snake with body b,
\* active direction cur and pending queue q
SetDir(b, cur, q, d) ==
    IF b # <<>> /\ (d[1] = -cur[1] /\ d[2] = -cur[2]) THEN q
    ELSE IF q = <<>> \/ q[Len(q)] # d THEN Append(q, d)
    ELSE q

StepWrong(s) ==
    LET ndir == IF s.dir_queue # <<>> THEN Head(s.dir_queue) ELSE s.dir
        nq == IF s.dir_queue # <<>> THEN Tail(s.dir_queue) ELSE s.dir_queue
        head == s.body[1]
        new_head == <<head[1] + ndir[1], head[2] + ndir[2]>>
        grown == <<new_head>> \o s.body
    IN  [body |-> SubSeq(grown, 1, Len(grown) - 1),
         dir |-> ndir,
         dir_queue |-> nq,
         grow |-> IF s.grow > 0 THEN s.grow - 1 ELSE s.grow]

StepWraps(s) ==
    LET ndir == IF s.dir_queue # <<>> THEN Head(s.dir_queue) ELSE s.dir
        nq == IF s.dir_queue # <<>> THEN Tail(s.dir_queue) ELSE s.dir_queue
        head == s.body[1]
        new_head == <<(head[1] + ndir[1]) % GRID_W, (head[2] + ndir[2]) % GRID_H>>
        grown == <<new_head>> \o s.body
    IN  [body |-> IF s.grow > 0 THEN grown ELSE SubSeq(grown, 1, Len(grown) - 1),
         dir |-> ndir,
         dir_queue |-> nq,
         grow |-> IF s.grow > 0 THEN s.grow - 1 ELSE s.grow]

StepLateCredit(s) ==
    LET ndir == IF s.dir_queue # <<>> THEN Head(s.dir_queue) ELSE s.dir
        nq == IF s.dir_queue # <<>> THEN Tail(s.dir_queue) ELSE s.dir_queue
        head == s.body[1]
        new_head == <<head[1] + ndir[1], head[2] + ndir[2]>>
        grown == <<new_head>> \o s.body
    IN  [body |-> IF s.grow > 1 THEN grown ELSE SubSeq(grown, 1, Len(grown) - 1),
         dir |-> ndir,
         dir_queue |-> nq,
         grow |-> IF s.grow > 1 THEN s.grow - 1 ELSE s.grow]

StepKeepsCredit(s) ==
    LET ndir == IF s.dir_queue # <<>> THEN Head(s.dir_queue) ELSE s.dir
        nq == IF s.dir_queue # <<>> THEN Tail(s.dir_queue) ELSE s.dir_queue
        head == s.body[1]
        new_head == <<head[1] + ndir[1], head[2] + ndir[2]>>
        grown == <<new_head>> \o s.body
    IN  [body |-> IF s.grow > 0 THEN grown ELSE SubSeq(grown, 1, Len(grown) - 1),
         dir |-> ndir,
         dir_queue |-> nq,
         grow |-> s.grow]

StepNoPop(s) ==
    LET ndir == IF s.dir_queue # <<>> THEN Head(s.dir_queue) ELSE s.dir
        nq == IF s.dir_queue # <<>> THEN Tail(s.dir_queue) ELSE s.dir_queue
        head == s.body[1]
        new_head == <<head[1] + ndir[1], head[2] + ndir[2]>>
    IN  [body |-> <<new_head>> \o s.body,
         dir |-> ndir,
         dir_queue |-> nq,
         grow |-> IF s.grow > 0 THEN s.grow - 1 ELSE s.grow]

StepLifo(s) ==
    LET q == s.dir_queue
        ndir == IF q # <<>> THEN q[Len(q)] ELSE s.dir
        nq == IF q # <<>> THEN SubSeq(q, 1, Len(q) - 1) ELSE q
        head == s.body[1]
        new_head == <<head[1] + ndir[1], head[2] + ndir[2]>>
        grown == <<new_head>> \o s.body
    IN  [body |-> IF s.grow > 0 THEN grown ELSE SubSeq(grown, 1, Len(grown) - 1),
         dir |-> ndir,
         dir_queue |-> nq,
         grow |-> IF s.grow > 0 THEN s.grow - 1 ELSE s.grow]

\* Snake.step on the snake s = [body, dir, dir_queue, grow]
Step(s) ==
    LET ndir == IF s.dir_queue # <<>> THEN Head(s.dir_queue) ELSE s.dir
        nq == IF s.dir_queue # <<>> THEN Tail(s.dir_queue) ELSE s.dir_queue
        head == s.body[1]
        new_head == <<head[1] + ndir[1], head[2] + ndir[2]>>
        grown == <<new_head>> \o s.body
    IN  [body |-> IF s.grow > 0 THEN grown ELSE SubSeq(grown, 1, Len(grown) - 1),
         dir |-> ndir,
         dir_queue |-> nq,
         grow |-> IF s.grow > 0 THEN s.grow - 1 ELSE s.grow]

HitsWallWrong(b) ==
    LET x == b[1][1]
        y == b[1][2]
    IN  x < 0 \/ x > GRID_W \/ y < 0 \/ y > GRID_H

\* Snake.hits_wall
HitsWall(b) ==
    LET x == b[1][1]
        y == b[1][2]
    IN  x < 0 \/ x >= GRID_W \/ y < 0 \/ y >= GRID_H

HitsSelfWrong(b) == \E i \in 4 .. Len(b) : b[i] = b[1]

\* Snake.hits_self
HitsSelf(b) == \E i \in 2 .. Len(b) : b[i] = b[1]

\* ----------------------------------------------------------------- Food
FreeCellsWrong(b) == AllCells \ Cells(Tail(b))

\* the free set of Food._rand_pos
FreeCells(b) == AllCells \ Cells(b)

RandPosWrong(b) == AllCells

\* Food._rand_pos: the positions random.choice may return
RandPos(b) == IF FreeCells(b) # {} THEN FreeCells(b) ELSE {None}

\* ----------------------------------------------------------- high score
\* load_high_score
LoadHighScore == stored

ShouldSaveWrong(s, h) == s >= h

\* Game.update: the test that guards save_high_score
ShouldSave(s, h) == s > h

\* ----------------------------------------------------------------- Game
SkipsUpdateWrong(p, g) == g

\* Game.update: the early return
SkipsUpdate(p, g) == p \/ g

Snapshot == [body |-> body, dir |-> dir, dir_queue |-> dir_queue, grow |-> grow,
             food |-> food, score |-> score, high |-> high, fps |-> fps,
             paused |-> paused, game_over |-> game_over, stored |-> stored]

SnakeOf(st) == [body |-> st.body, dir |-> st.dir, dir_queue |-> st.dir_queue,
                grow |-> st.grow]

NoDir == <<0, 0>>

\* What a restart starts from: Game.reset overwrites the rest unread
Flags == [dir_queue |-> dir_queue, score |-> score, high |-> high,
          paused |-> paused, game_over |-> game_over, stored |-> stored]

Did(op, d, saves, pre, mid) ==
    [op |-> op, d |-> d, saves |-> saves, pre |-> pre, mid |-> mid]

\* Game.reset, with the food position f drawn by Food.__init__
Reset(f) ==
    /\ body' = SnakeReset.body
    /\ dir' = SnakeReset.dir
    /\ dir_queue' = SnakeReset.dir_queue
    /\ grow' = SnakeReset.grow
    /\ food' = f
    /\ score' = 0
    /\ high' = LoadHighScore
    /\ fps' = FpsStart
    /\ paused' = FALSE
    /\ game_over' = FALSE
    /\ UNCHANGED stored

\* Game.__init__: the state after construction, for each content of the store
Init ==
    /\ stored \in 0 .. MaxHigh
    /\ dir_queue = <<>>
    /\ grow = 0
    /\ body = SnakeReset.body
    /\ dir = Right
    /\ food \in RandPos(SnakeReset.body)
    /\ score = 0
    /\ high = stored
    /\ fps = FpsStart
    /\ paused = FALSE
    /\ game_over = FALSE
    /\ last = [op |-> "init", d |-> NoDir, saves |-> 0,
               pre |-> [body |-> body, dir |-> dir, dir_queue |-> dir_queue,
                        grow |-> grow, food |-> food, score |-> score,
                        high |-> high, fps |-> fps, paused |-> paused,
                        game_over |-> game_over, stored |-> stored],
               mid |-> [body |-> body, dir |-> dir, dir_queue |-> dir_queue,
                        grow |-> grow]]

\* handle_events, a direction key: Snake.set_dir(d), in any state of the game;
\* the key is not taken when it would make the pending queue longer than n
KeyDirTo(d, n) ==
    /\ Len(SetDir(body, dir, dir_queue, d)) <= n
    /\ dir_queue' = SetDir(body, dir, dir_queue, d)
    /\ last' = Did("dir", d, 0, Snapshot, SnakeOf(Snapshot))
    /\ UNCHANGED <<body, dir, grow, food, score, high, fps, paused, game_over, stored>>

KeyDir(d) == KeyDirTo(d, MaxQueue)

\* handle_events, the P key: toggles paused, in any state of the game
KeyPause ==
    /\ paused' = ~paused
    /\ last' = Did("pause", NoDir, 0, Snapshot, SnakeOf(Snapshot))
    /\ UNCHANGED <<body, dir, dir_queue, grow, food, score, high, fps, game_over, stored>>

\* handle_events, the R key once the game is over
KeyRestart ==
    /\ game_over
    /\ last' = Did("restart", NoDir, 0, Flags, SnakeReset)
    /\ \E f \in RandPos(SnakeReset.body) : Reset(f)

\* Game.update, one tick.  last.mid is the snake as step() left it.  The tick
\* is not taken when it would raise the score past n.
UpdateTo(n) ==
    IF SkipsUpdate(paused, game_over)
    THEN /\ last' = Did("tick", NoDir, 0, Snapshot, SnakeOf(Snapshot))
         /\ UNCHANGED <<body, dir, dir_queue, grow, food, score, high, fps,
                        paused, game_over, stored>>
    ELSE LET s == Step(SnakeOf(Snapshot))
         IN  /\ body' = s.body
             /\ dir' = s.dir
             /\ dir_queue' = s.dir_queue
             /\ UNCHANGED <<high, paused>>
             /\ IF HitsWall(s.body) \/ HitsSelf(s.body)
                THEN /\ game_over' = TRUE
                     /\ grow' = s.grow
                     /\ UNCHANGED <<food, score, fps>>
                     /\ IF ShouldSave(score, high)
                        THEN /\ last' = Did("tick", NoDir, 1, Snapshot, s)
                             \* save_high_score: the write succeeds or fails silently
                             /\ stored' \in {score, stored}
                        ELSE /\ last' = Did("tick", NoDir, 0, Snapshot, s)
                             /\ UNCHANGED stored
                ELSE /\ UNCHANGED <<game_over, stored>>
                     /\ last' = Did("tick", NoDir, 0, Snapshot, s)
                     /\ IF s.body[1] = food
                        THEN /\ score < n
                             /\ score' = score + 1
                             /\ grow' = s.grow + 1
                             /\ fps' = FAdd(fps, FPS_STEP)
                             /\ food' \in RandPos(s.body)
                        ELSE /\ grow' = s.grow
                             /\ UNCHANGED <<food, score, fps>>

Update == UpdateTo(MaxScore)

\* Game.run: the framerate handed to Clock.tick when the speed is f
TickRate(f) == IF FInt(f) > 1 THEN FInt(f) ELSE 1

Next ==
    \/ \E d \in Directions : KeyDir(d)
    \/ KeyPause
    \/ KeyRestart
    \/ Update

Spec == Init /\ [][Next]_vars

\* One game played to its end without pause: the score is held only by the
\* playfield (a snake of GRID_W * GRID_H cells fills it), and at most MaxTurns
\* directions are pending
LongNext ==
    \/ \E d \in Directions : KeyDirTo(d, MaxTurns)
    \/ UpdateTo(GRID_W * GRID_H)

LongSpec == Init /\ [][LongNext]_vars

\* One game with the pause key, started without a highscore.json, in which
\* Game.run keeps calling update()
FairInit == Init /\ stored = 0

FairNext ==
    \/ \E d \in Directions : KeyDirTo(d, MaxTurns)
    \/ KeyPause
    \/ UpdateTo(GRID_W * GRID_H)

FairSpec == FairInit /\ [][FairNext]_vars /\ WF_vars(UpdateTo(GRID_W * GRID_H))

\* ------------------------------------------------------------ properties
Pre == last.pre

\* the last handler was a tick that ran Snake.step
Stepped == last.op = "tick" /\ ~Pre.paused /\ ~Pre.game_over

InGrid(c) == c[1] >= 0 /\ c[1] < GRID_W /\ c[2] >= 0 /\ c[2] < GRID_H

\* C1: the active direction after a step() is never the exact opposite of the
\* active direction before that step()
C1_NoReversal == Stepped => dir # <<-Pre.dir[1], -Pre.dir[2]>>

\* C2: save_high_score is called at most once by a handler, and only by the
\* tick that moves a running game to game over with score > the loaded high
\* score: never by a tick that eats, never once the game is over, never by a
\* pause or direction command
C2_SaveOnlyAtGameOver ==
    /\ last.saves \in {0, 1}
    /\ last.saves = 1 =>
          /\ last.op = "tick"
          /\ ~Pre.paused /\ ~Pre.game_over
          /\ game_over
          /\ Pre.score > Pre.high
          /\ score = Pre.score
    /\ stored # Pre.stored => last.saves = 1 /\ stored = Pre.score

C2_Saved == last.saves = 1 /\ stored = Pre.score /\ Pre.score = MaxScore

\* C3: a tick while paused or after game over changes nothing
C3_IdleTick ==
    (last.op = "tick" /\ (Pre.paused \/ Pre.game_over)) =>
        /\ body = Pre.body
        /\ dir = Pre.dir
        /\ dir_queue = Pre.dir_queue
        /\ grow = Pre.grow
        /\ food = Pre.food
        /\ score = Pre.score
        /\ fps = Pre.fps
        /\ high = Pre.high
        /\ stored = Pre.stored
        /\ paused = Pre.paused
        /\ game_over = Pre.game_over
        /\ last.saves = 0

C3_PausedTick ==
    last.op = "tick" /\ Pre.paused /\ ~Pre.game_over /\ dir_queue # <<>> /\ grow > 0

\* C4: the pause command takes Playing to Paused and Paused to Playing, and
\* changes nothing when the game is over
C4_PauseToggle ==
    last.op = "pause" =>
        /\ (~Pre.game_over /\ ~Pre.paused) => (paused /\ ~game_over)
        /\ (~Pre.game_over /\ Pre.paused) => (~paused /\ ~game_over)
        /\ Pre.game_over => (paused = Pre.paused /\ game_over)

\* C5: a direction command received while paused or after game over leaves the
\* pending queue and the active direction unchanged
C5_DirIgnoredUnlessPlaying ==
    (last.op = "dir" /\ (Pre.paused \/ Pre.game_over)) =>
        (dir_queue = Pre.dir_queue /\ dir = Pre.dir)

\* C6: a tick of a running game ends the game exactly when the head after
\* step() is outside the grid or on a body cell of index >= 1 (Python's
\* body[1:]); so the head of a running game is inside the grid
C6_GameOverIffCollision ==
    /\ Stepped =>
          (game_over <=>
              \/ body[1][1] < 0 \/ body[1][1] >= GRID_W
              \/ body[1][2] < 0 \/ body[1][2] >= GRID_H
              \/ \E i \in 2 .. Len(body) : body[i] = body[1])
    /\ (~paused /\ ~game_over) => InGrid(body[1])

C6_HitRightWall == Stepped /\ game_over /\ body[1][1] = GRID_W

C6_HitSelf == Stepped /\ game_over /\ InGrid(body[1])

C8_StepLength ==
    Stepped =>
        /\ body = last.mid.body
        /\ Pre.grow >= 0
        /\ IF Pre.grow > 0
           THEN Len(body) = Len(Pre.body) + 1 /\ last.mid.grow = Pre.grow - 1
           ELSE Len(body) = Len(Pre.body) /\ last.mid.grow = 0

C8_Grew == Stepped /\ Pre.grow > 0 /\ Len(body) = Len(Pre.body) + 1 /\ ~game_over

\* C9: a restart after game over gives a running game: the 3-cell snake at the
\* grid centre heading right, no pending direction, no growth credit, food on
\* a free cell, score 0 and the initial speed, whatever pause or direction
\* commands came while the game was over
C9_Restart ==
    last.op = "restart" =>
        /\ Pre.game_over
        /\ ~game_over /\ ~paused
        /\ body = << <<GRID_W \div 2, GRID_H \div 2>>,
                     <<GRID_W \div 2 - 1, GRID_H \div 2>>,
                     <<GRID_W \div 2 - 2, GRID_H \div 2>> >>
        /\ dir = <<1, 0>>
        /\ dir_queue = <<>>
        /\ grow = 0
        /\ food \in AllCells /\ \A i \in 1 .. Len(body) : body[i] # food
        /\ score = 0
        /\ fps = FpsStart

C9_RestartAfterKeys ==
    last.op = "restart" /\ Pre.paused /\ Len(Pre.dir_queue) = MaxQueue /\ Pre.score > 0

\* C10 as stated: set_dir(d) leaves the queue as it is exactly when d is the
\* opposite of the active direction
C10_NoOpIffOpposite ==
    last.op = "dir" =>
        ((dir_queue = Pre.dir_queue) <=> (last.d = <<-Pre.dir[1], -Pre.dir[2]>>))

\* C10 as amended: set_dir(d) leaves the queue as it is exactly when d is the
\* opposite of the active direction or equals the last pending direction, and
\* appends d otherwise; the opposite is judged against the active direction,
\* so with Right active, Up then Down are both enqueued in that order
C10_NoOpIffOppositeOrRepeat ==
    last.op = "dir" =>
        LET q == Pre.dir_queue
            opposite == last.d = <<-Pre.dir[1], -Pre.dir[2]>>
            repeat == q # <<>> /\ q[Len(q)] = last.d
        IN  /\ dir = Pre.dir
            /\ (opposite \/ repeat) => dir_queue = q
            /\ ~(opposite \/ repeat) => (dir_queue = q \o <<last.d>> /\ dir_queue # q)
            /\ (Pre.dir = Right /\ q = <<Up>> /\ last.d = Down) => dir_queue = <<Up, Down>>

C10_UpThenDown ==
    /\ last.op = "dir" /\ last.d = Down
    /\ Pre.dir = Right /\ Pre.dir_queue = <<Up>>
    /\ dir_queue = <<Up, Down>>

\* C11: in every reachable state the food is None only when the snake covers
\* every cell of the grid, and whenever a grid cell is free of the snake the
\* food is present, inside the grid and on no snake cell
C11_FoodOffSnake ==
    /\ food = None => \A c \in AllCells : \E i \in 1 .. Len(body) : body[i] = c
    /\ (\E c \in AllCells : \A i \in 1 .. Len(body) : body[i] # c) =>
          /\ food # None
          /\ InGrid(food)
          /\ \A i \in 1 .. Len(body) : body[i] # food

\* the snake has eaten the last free cell: no food, and the game still runs
C11_GridFull ==
    /\ food = None /\ ~game_over
    /\ Len(body) = GRID_W * GRID_H
    /\ last.op = "tick" /\ score = Pre.score + 1

\* C12: in every reachable state each body cell differs from the next by one
\* unit direction step, and in every state that is not game over no two body
\* cells are equal
C12_BodyShape ==
    /\ \A i \in 1 .. Len(body) - 1 :
          \E d \in {<<0, -1>>, <<0, 1>>, <<-1, 0>>, <<1, 0>>} :
              body[i] = <<body[i + 1][1] + d[1], body[i + 1][2] + d[2]>>
    /\ ~game_over =>
          \A i \in 1 .. Len(body) : \A j \in 1 .. Len(body) : i # j => body[i] # body[j]

\* a grown snake that has turned and stepped, still running
C12_BentSnake ==
    /\ Stepped /\ ~game_over
    /\ Len(body) = 3 + MaxScore
    /\ body[1][2] # body[Len(body)][2]

\* no tick, pause command or direction command lowers the speed
C13_NeverSlower ==
    last.op \in {"tick", "pause", "dir"} => FLeq(Pre.fps, fps)

\* C13: no tick, pause command or direction command ever lowers the speed, and
\* in every reachable state the speed equals the initial value plus the
\* increment times the score (FPS_START + FPS_STEP * score as Python
\* evaluates it)
C13_SpeedLinear ==
    /\ last.op \in {"tick", "pause", "dir"} => FLeq(Pre.fps, fps)
    /\ fps = FAdd(FpsStart, FMulInt(FPS_STEP, score))

\* C14: a tick consumes at most one pending direction, the oldest: when the
\* queue is not empty before step(), its first entry becomes the active
\* direction and the other entries stay, in their order; when it is empty the
\* active direction stays
C14_OnePerTick ==
    /\ last.op = "tick" => Len(dir_queue) >= Len(Pre.dir_queue) - 1
    /\ Stepped =>
          IF Len(Pre.dir_queue) > 0
          THEN /\ dir = Pre.dir_queue[1]
               /\ Len(dir_queue) = Len(Pre.dir_queue) - 1
               /\ \A i \in 1 .. Len(dir_queue) : dir_queue[i] = Pre.dir_queue[i + 1]
          ELSE dir = Pre.dir /\ dir_queue = <<>>

\* two directions were pending: the tick took the first and left the second
C14_SecondWaits ==
    /\ Stepped /\ ~game_over
    /\ Len(Pre.dir_queue) = 2
    /\ dir = Pre.dir_queue[1] /\ dir # Pre.dir
    /\ dir_queue = <<Pre.dir_queue[2]>>

\* C15: set_dir(d) appends d only when the queue is empty or its last entry
\* is not d, so in every reachable state no two adjacent entries of the
\* pending queue are equal
C15_NoRepeat ==
    /\ (last.op = "dir" /\ dir_queue # Pre.dir_queue) =>
          /\ dir_queue = Pre.dir_queue \o <<last.d>>
          /\ Pre.dir_queue = <<>> \/ Pre.dir_queue[Len(Pre.dir_queue)] # last.d
    /\ \A i \in 1 .. Len(dir_queue) - 1 : dir_queue[i] # dir_queue[i + 1]

\* the key of the last pending direction, pressed again, is dropped although
\* it is not the opposite of the active direction
C15_RepeatDropped ==
    /\ last.op = "dir"
    /\ Len(Pre.dir_queue) = 1 /\ Pre.dir_queue[1] = last.d
    /\ last.d # <<-Pre.dir[1], -Pre.dir[2]>>
    /\ dir_queue = Pre.dir_queue

\* C16: the self-collision is judged on the body as step() left it, against
\* the cells of index >= 1: a head that moves into the cell the tail held
\* before the tick does not end the game when the tick had no growth credit
\* (the tail has left the cell) and ends it when the tick consumed a credit
\* (the tail stayed); a body of one cell never collides with itself
C16_TailCell ==
    /\ (Stepped /\ body[1] = Pre.body[Len(Pre.body)]) =>
          IF Pre.grow = 0 THEN ~game_over ELSE game_over
    /\ \A c \in AllCells : ~HitsSelf(<<c>>)

\* the head took the cell the tail had just left, and the game runs on
C16_IntoLeftCell ==
    /\ Stepped /\ Pre.grow = 0
    /\ body[1] = Pre.body[Len(Pre.body)]
    /\ ~game_over

\* the head moved into the cell of a tail that a growth credit kept in place
C16_IntoKeptTail ==
    /\ Stepped /\ Pre.grow = 1
    /\ body[1] = Pre.body[Len(Pre.body)]
    /\ body[1] = body[Len(body)]
    /\ game_over

\* C17 as stated: on the tick that detects a collision, score, speed, growth
\* credit and food are the same after the tick as before it, and besides the
\* snake's step only the phase and possibly the stored high score change
C17_SameAsBefore ==
    (Stepped /\ game_over) =>
        /\ score = Pre.score
        /\ fps = Pre.fps
        /\ grow = Pre.grow
        /\ food = Pre.food
        /\ high = Pre.high /\ paused = Pre.paused
        /\ stored = Pre.stored \/ (Pre.score > Pre.high /\ stored = Pre.score)

\* C17 as amended: on the tick that detects a collision, score, speed and food
\* are the same after the tick as before it and the growth credit is the one
\* step() left (one less than before the tick when a credit was pending);
\* besides the snake's step only the phase and possibly the stored high score
\* change
C17_NoFoodCheck ==
    (Stepped /\ game_over) =>
        /\ score = Pre.score
        /\ fps = Pre.fps
        /\ grow = last.mid.grow
        /\ grow = IF Pre.grow > 0 THEN Pre.grow - 1 ELSE 0
        /\ food = Pre.food
        /\ body = last.mid.body /\ dir = last.mid.dir /\ dir_queue = last.mid.dir_queue
        /\ high = Pre.high /\ paused = Pre.paused
        /\ stored = Pre.stored \/ (Pre.score > Pre.high /\ stored = Pre.score)

\* the colliding step consumed the credit of the food eaten one tick earlier
C17_CreditSpent ==
    /\ Stepped /\ game_over
    /\ Pre.grow = 1 /\ grow = 0
    /\ Len(body) = Len(Pre.body) + 1
    /\ score = Pre.score /\ food = Pre.food

\* C18: the tick rate handed to the scheduler equals the current speed, or 1
\* when the speed is below 1, and every food eaten raises the scheduled tick
\* rate by FPS_STEP
C18_RateIsSpeed ==
    /\ FromInt(TickRate(fps)) = (IF FLeq(fps, FromInt(1)) THEN FromInt(1) ELSE fps)
    /\ (Stepped /\ score = Pre.score + 1) =>
          FromInt(TickRate(fps)) = FAdd(FromInt(TickRate(Pre.fps)), FPS_STEP)

\* C19: in every reachable state the body length plus the growth credit is
\* 3 plus the score and the credit is 0 or 1; a step() that starts with a
\* credit leaves none
C19_LengthAccount ==
    /\ Len(body) + grow = 3 + score
    /\ grow \in {0, 1}
    /\ (Stepped /\ Pre.grow = 1) => last.mid.grow = 0

\* the second food has just been eaten: its credit is pending
C19_CreditPending ==
    /\ Stepped /\ ~game_over
    /\ score = 2 /\ Pre.score = 1
    /\ grow = 1 /\ Len(body) = 4

\* the ticks a head at b[1] moving in direction d takes to leave the grid
ToWall(b, d) ==
    IF d[1] = 1 THEN GRID_W - b[1][1]
    ELSE IF d[1] = -1 THEN b[1][1] + 1
    ELSE IF d[2] = 1 THEN GRID_H - b[1][2]
    ELSE b[1][2] + 1

\* a step() with no pending direction keeps the active direction and brings
\* the head one cell nearer to the wall ahead, which is at most GRID_W cells
\* away in a game that is not over
C20_WallAhead ==
    /\ ~game_over => (ToWall(body, dir) >= 1 /\ ToWall(body, dir) <= GRID_W)
    /\ (Stepped /\ Pre.dir_queue = <<>>) =>
          /\ dir = Pre.dir
          /\ ToWall(body, dir) = ToWall(Pre.body, Pre.dir) - 1

\* C20: when from some point on the game is not paused, no key is pressed
\* and the ticks keep firing, the game is eventually over: with no pending
\* direction every step() keeps the active direction and comes one cell
\* nearer to the wall ahead, so the game is over after at most GRID_W ticks,
\* whatever food is eaten on the way
C20_RunsIntoWall ==
    /\ []C20_WallAhead
    /\ <>[](~paused /\ last.op = "tick") => <>game_over

\* a game without any key: the snake ate on its way and ended in the wall
C20_StraightIntoWall ==
    /\ Stepped /\ game_over
    /\ score = 1 /\ dir = Right /\ body[1][1] = GRID_W
    /\ \A i \in 1 .. Len(body) : body[i][2] = body[1][2]
    /\ Len(body) = 4

====
